---- MODULE Spec2Model ----
(***************************************************************************)
(* Day-stepping farm simulation engines of agriculture_dashboard:          *)
(*   app.py         VirtualFarm + SensorNode + SensorNetwork               *)
(*   simulation.py  VirtualFarm (the engine the dashboard imports)         *)
(*                                                                         *)
(* Reals are fixed point integers.  Units:                                 *)
(*   temperature, rainfall, evapotranspiration   1/10   (np.round(.,1))    *)
(*   size_ha                                      1/10 ha                  *)
(*   soil moisture, nutrients, water, irrigation,                          *)
(*   fertilizer (app.py)                          1/100                    *)
(*   crop_growth_stage, pest_pressure (app.py)    1/1000000                *)
(*   battery                                      1/10                     *)
(*   yield_kg                                     1/10 kg                  *)
(*   revenue                                      1/100                    *)
(*   costs                                        1/10000                  *)
(* Products that are not exact in the unit are floored (\div).             *)
(***************************************************************************)
EXTENDS Integers, Sequences, FiniteSets, TLC

VARIABLES
    variant,   \* which module's VirtualFarm the caller created: "app" | "simulation"
    seed,      \* state of the module-level random generators (np.random, random)
    farm,      \* the app.py VirtualFarm object (with its sensor network), or NoFarm
    sim,       \* the simulation.py VirtualFarm object, or NoFarm
    last,      \* the last call made by the caller: operation, return value, exception
    daily_data \* the list run_simulation of app.py builds while advance_day returns True

vars == <<variant, seed, farm, sim, last, daily_data>>

\* Longest horizon of the freely randomised runs.
MaxDays == 2
\* Calls of simulation.py's advance_day explored beyond simulation_days.
MaxOverrun == 1
\* Default simulation_days, the horizon of the app.py run under the fixed stream.
SeasonDays == 120
\* Largest duration the dashboard offers, the horizon of the simulation.py run
\* under the fixed stream.
LongSeasonDays == 180
\* The year of the cost amortisation, the horizon of a one-year app.py run
\* under the fixed stream.
YearDays == 365

NoFarm == [absent |-> TRUE]
None == "None"

Min(a, b) == IF a <= b THEN a ELSE b
Max(a, b) == IF a >= b THEN a ELSE b

RECURSIVE SumSeq(_)
SumSeq(s) == IF s = <<>> THEN 0 ELSE Head(s) + SumSeq(Tail(s))

\* np.mean of a non-empty list / array
Mean(s) == SumSeq(s) \div Len(s)

\* Python int(): truncation toward zero, x given as num/den with den > 0
PyInt(num, den) == IF num >= 0 THEN num \div den ELSE -((-num) \div den)

\* Python round() of num/den (num >= 0, den > 0) to an integer: to the nearest,
\* halves to the even neighbour
PyRound(num, den) ==
    LET q == num \div den
        r == num % den
    IN  IF 2 * r < den THEN q
        ELSE IF 2 * r > den THEN q + 1
        ELSE IF q % 2 = 0 THEN q ELSE q + 1

\* rounding of num/den (den > 0) to the nearest integer, halves upward
RoundDiv(num, den) == (2 * num + den) \div (2 * den)

(***************************************************************************)
(* Random draws.  Under seed "any" every draw ranges over a small set of   *)
(* values of the distribution's support, tails included; under seed        *)
(* "monsoon" the generators produce one fixed stream (heavy rain every     *)
(* day, no noise, no sensor fault), which makes a full season explorable.  *)
(***************************************************************************)
Seeds == {"any", "monsoon"}

\* one day's draws of generate_weather_profile:
\*   rain = 5 * weibull(0.8), et_noise = normal(2, 0.5), both in 1/10
DayDraws(s) ==
    IF s = "monsoon" THEN {[rain |-> 300, et_noise |-> 20]}
    ELSE {[rain |-> 0, et_noise |-> 20],
          [rain |-> 60, et_noise |-> 20],
          [rain |-> 0, et_noise |-> -80]}

\* np.random.normal(0, 0.2) of update_soil_moisture, in 1/100
DepletionNoise(s) == IF s = "monsoon" THEN {0} ELSE {-20, 20}

\* np.random.uniform(lo, hi, 3) of initialize_soil_moisture, in 1/100
UniformVectors(lo, hi, s) ==
    IF s = "monsoon" THEN {<<hi, lo, (lo + hi) \div 2>>}
    ELSE {<<lo, (lo + hi) \div 2, hi>>, <<hi, lo, lo>>}

(***************************************************************************)
(* app.py : weather profile                                                *)
(***************************************************************************)
\* 100 * sin(2*pi*d/n) to the nearest integer, by Bhaskara's rational
\* approximation (the resulting temperature is within 0.1 of np.sin's).
Sin100(d, n) ==
    LET a0 == (2 * d) % (2 * n)
        neg == a0 > n
        a == IF neg THEN a0 - n ELSE a0
        p == a * (n - a)
        v == RoundDiv(1600 * p, 5 * n * n - 4 * p)
    IN  IF neg THEN -v ELSE v

\* temperature of day d (0-based) before the crop-specific shocks
SeasonalTemperature(d, n) == 150 + Sin100(d, n)

\* heat_wave[40:45] = 8 and drought[60:80] = -0.7, wheat only
HeatWave(crop, d) == IF crop = "wheat" /\ d >= 40 /\ d < 45 THEN 80 ELSE 0
Drought(crop, d) == IF crop = "wheat" /\ d >= 60 /\ d < 80 THEN -7 ELSE 0

\* row d (0-based) of the DataFrame built from the day's draws
WeatherRow(crop, n, d, draw) ==
    LET seasonal == SeasonalTemperature(d, n)
    IN  [day |-> d,
         temperature |-> seasonal + HeatWave(crop, d),
         rainfall |-> IF crop = "wheat"
                      THEN Max(0, Max(0, draw.rain) + Drought(crop, d))
                      ELSE Max(0, draw.rain),
         \* evapotranspiration is computed before the heat wave is added
         evapotranspiration |-> seasonal \div 2 + draw.et_noise]

\* the set of profiles generate_weather_profile can return (days >= 0)
WeatherProfiles(crop, n, s) ==
    {[i \in 1..n |-> WeatherRow(crop, n, i - 1, draws[i])] :
        draws \in [1..n -> DayDraws(s)]}

(***************************************************************************)
(* app.py : SensorNode, SensorNetwork                                      *)
(***************************************************************************)
SensorTypes == <<"soil_moisture", "nutrient", "pest">>
Depths == <<1, 3, 6>>            \* random.choice([0.1, 0.3, 0.6]), in 1/10
FullBattery == 1000              \* battery = 100

\* one node's draws during one collect_data pass:
\*   drain   = random.uniform(0.1, 0.5) in 1/10
\*   fail    = random.random() < 0.005
\*   noise   = random.gauss(0, sigma) in units of sigma
\*   restore = random.random() < 0.05
NodeDraws(s) ==
    IF s = "monsoon"
    THEN {[drain |-> 5, fail |-> FALSE, noise |-> 0, restore |-> FALSE]}
    ELSE {[drain |-> 1, fail |-> FALSE, noise |-> -1, restore |-> FALSE],
          [drain |-> 5, fail |-> FALSE, noise |-> 1, restore |-> TRUE],
          [drain |-> 5, fail |-> TRUE, noise |-> 0, restore |-> FALSE],
          [drain |-> 1, fail |-> TRUE, noise |-> 0, restore |-> TRUE]}

\* standard deviation of the per-type Gaussian noise (1/100)
Sigma(type) == CASE type = "soil_moisture" -> 80
                 [] type = "nutrient" -> 120
                 [] OTHER -> 300

\* the depth draws of initialize_network for n nodes (the fixed stream gives
\* the nodes of one sensor type, i = t, t+3, t+6, ..., successive depths)
DepthDraws(n, s) ==
    IF s = "monsoon" THEN {[i \in 1..n |-> Depths[((i - 1 + (i - 1) \div 3) % 3) + 1]]}
    ELSE {[i \in 1..n |-> Depths[((i - 1 + k) % 3) + 1]] : k \in 0..2}

\* node_count = int(self.farm.size * 1.5)
NodeCount(size) == PyInt(size * 15, 100)

\* SensorNode.__init__
NewNode(i, depth) ==
    [node_id |-> i, sensor_type |-> SensorTypes[(i % 3) + 1], depth |-> depth,
     battery |-> FullBattery, operational |-> TRUE]

\* SensorNetwork.initialize_network; range(node_count) is empty for counts <= 0
InitializeNetwork(size, depths) ==
    [i \in 1..Max(0, NodeCount(size)) |-> NewNode(i - 1, depths[i])]

\* Python sequence indexing, negative indices counting from the end
PyIndex(seq, i) == IF i < 0 THEN seq[Len(seq) + i + 1] ELSE seq[i + 1]

\* index used by SensorNode.measure: depth = int(position[2]*10); depth//10 - 1
MoistureIndex(node) == (node.depth \div 10) - 1

\* the true value a node of this type reads
TrueValue(node, f) ==
    CASE node.sensor_type = "soil_moisture" -> PyIndex(f.soil_moisture, MoistureIndex(node))
      [] node.sensor_type = "nutrient" -> f.soil_nutrients.N
      [] OTHER -> f.pest_pressure \div 100        \* pest_pressure * 100, in 1/100

\* clamping of a noisy reading to its physical range
ClampReading(type, v) == IF type = "pest" THEN Max(0, Min(10000, v)) ELSE Max(0, v)

\* what measure returns: None because the node is not operational, None
\* because the node failed during the measurement, or a reading
NotOperational == [is_none |-> TRUE, v |-> 0, cause |-> "not operational"]
Failed == [is_none |-> TRUE, v |-> 0, cause |-> "failed"]
Reading(v) == [is_none |-> FALSE, v |-> v, cause |-> "measured"]

\* SensorNode.measure: the node afterwards and the value returned
Measure(node, f, d) ==
    IF ~node.operational THEN [node |-> node, value |-> NotOperational]
    ELSE LET drained == [node EXCEPT !.battery = @ - d.drain]
         IN  IF d.fail
             THEN [node |-> [drained EXCEPT !.operational = FALSE], value |-> Failed]
             ELSE [node |-> drained,
                   value |-> Reading(ClampReading(node.sensor_type,
                                TrueValue(node, f) + d.noise * Sigma(node.sensor_type)))]

\* SensorNode.maintain
Maintain(node) == [node EXCEPT !.operational = TRUE, !.battery = FullBattery]

\* one iteration of the loop of collect_data
CollectNode(node, f, d) ==
    LET m == Measure(node, f, d)
    IN  [node |-> IF d.restore /\ ~m.node.operational THEN Maintain(m.node) ELSE m.node,
         value |-> m.value]

\* the readings of one sensor type, in node order
RECURSIVE Readings(_, _, _)
Readings(nodes, values, type) ==
    IF nodes = <<>> THEN <<>>
    ELSE (IF Head(nodes).sensor_type = type /\ ~Head(values).is_none
          THEN <<Head(values).v>> ELSE <<>>)
         \o Readings(Tail(nodes), Tail(values), type)

\* np.var of a non-empty list
Variance(s) ==
    LET m == Mean(s) IN SumSeq([i \in 1..Len(s) |-> (s[i] - m) * (s[i] - m)]) \div Len(s)

\* the aggregation substituting nominal values (25 and 40) for missing
\* moisture and nitrogen readings instead of 0
AggregateNominalDefault(nodes, values) ==
    LET sm == Readings(nodes, values, "soil_moisture")
        nu == Readings(nodes, values, "nutrient")
        pe == Readings(nodes, values, "pest")
    IN  [soil_moisture_avg |-> IF sm # <<>> THEN Mean(sm) ELSE 2500,
         soil_moisture_var |-> IF sm # <<>> THEN Variance(sm) ELSE 0,
         soil_N |-> IF nu # <<>> THEN Mean(nu) ELSE 4000,
         pest_pressure |-> IF pe # <<>> THEN Mean(pe) ELSE 0]

\* the record returned by collect_data (pest_pressure in 1/10000)
Aggregate(nodes, values) ==
    LET sm == Readings(nodes, values, "soil_moisture")
        nu == Readings(nodes, values, "nutrient")
        pe == Readings(nodes, values, "pest")
    IN  [soil_moisture_avg |-> IF sm # <<>> THEN Mean(sm) ELSE 0,
         soil_moisture_var |-> IF sm # <<>> THEN Variance(sm) ELSE 0,
         soil_N |-> IF nu # <<>> THEN Mean(nu) ELSE 0,
         pest_pressure |-> IF pe # <<>> THEN Mean(pe) ELSE 0]

\* SensorNetwork.collect_data under the draws ds (one per node)
CollectData(f, ds) ==
    LET per == [i \in 1..Len(f.nodes) |-> CollectNode(f.nodes[i], f, ds[i])]
        values == [i \in 1..Len(f.nodes) |-> per[i].value]
    IN  [nodes |-> [i \in 1..Len(f.nodes) |-> per[i].node],
         values |-> values,
         data |-> Aggregate(f.nodes, values)]

\* the outcome of a computation: the exception raised (None if none) and
\* the value returned
Returns(v) == [raised |-> None, value |-> v]
Raises(e) == [raised |-> e, value |-> 0]

\* Python true division: raises on a zero divisor
DivisorIsZero(den) == den = 0

\* SensorNetwork.calculate_uptime in 1/10 percent
CalculateUptime(f) ==
    IF DivisorIsZero(Len(f.nodes)) THEN Raises("ZeroDivisionError")
    ELSE Returns(RoundDiv(Cardinality({i \in 1..Len(f.nodes) : f.nodes[i].operational}) * 1000,
                          Len(f.nodes)))

(***************************************************************************)
(* app.py : VirtualFarm                                                    *)
(***************************************************************************)
\* initialize_soil_moisture: the uniform range of the soil type
InitializeSoilMoisture(soil, s) ==
    IF soil = "sandy" THEN UniformVectors(1500, 2500, s)
    ELSE IF soil = "clay" THEN UniformVectors(3000, 4000, s)
    ELSE UniformVectors(2000, 3000, s)

\* VirtualFarm.__init__ : the object built from a configuration and the
\* construction-time draws
NewFarm(cfg, moisture, weather, depths) ==
    [size |-> cfg.size_ha, crop |-> cfg.crop_type, soil |-> cfg.soil_type,
     days |-> cfg.simulation_days,
     current_date |-> 0,               \* days since start_date
     day_counter |-> 0,
     soil_moisture |-> moisture,
     soil_nutrients |-> [N |-> 5000, P |-> 3000, K |-> 4000],
     crop_growth_stage |-> 0,
     pest_pressure |-> 0,
     weather |-> weather,
     irrigation_applied |-> 0,
     fertilizer_applied |-> 0,
     water_used |-> 0,
     yield_kg |-> 0,
     costs |-> [system |-> 0, water |-> 0, fertilizer |-> 0, labor |-> 0],
     revenue |-> 0,
     nodes |-> InitializeNetwork(cfg.size_ha, depths)]

\* update_soil_moisture
UpdateSoilMoisture(f, w, noise) ==
    LET depletion == 7 * w.evapotranspiration + noise
        rainfall_effect == 6 * w.rainfall
    IN  [f EXCEPT !.soil_moisture =
                      [i \in 1..3 |-> Max(0, f.soil_moisture[i] - depletion + rainfall_effect)],
                  !.water_used = @ + depletion]

\* the maturity threshold 0.95 and the full stage 1.0
Maturity == 950000
FullGrowth == 1000000

\* stress_factor * 200 = 200 - 10 * max(0, temperature - 30)
StressFactor200(w) == 200 - Max(0, w.temperature - 300)

\* the growth stage without the min(1.0, .)
ClampGrowthMissing(stage) == stage

\* the clamped growth stage: min(1.0, stage + growth)
ClampGrowth(stage) == Min(FullGrowth, stage)

\* update_crop_growth
UpdateCropGrowth(f, w) ==
    LET mean == Mean(f.soil_moisture)
        g0 == (2 * Min(w.temperature, 300) * mean) \div 225
        g1 == IF w.temperature > 320 THEN (g0 * 7) \div 10 ELSE g0
        g2 == IF mean < 1500 THEN g1 \div 2 ELSE g1
        stage == ClampGrowth(f.crop_growth_stage + g2)
    IN  [f EXCEPT !.crop_growth_stage = stage,
                  !.yield_kg = IF stage >= Maturity
                               THEN f.size * 25 * StressFactor200(w)
                               ELSE @]

\* a pest update whose growth term is added instead of multiplied
UpdatePestPressureAdditive(f, w) ==
    LET grown == f.pest_pressure + (1000000 * w.temperature) \div 5000
        humid == IF w.rainfall > 50 THEN grown + 300000 ELSE grown
    IN  [f EXCEPT !.pest_pressure = (Min(FullGrowth, humid) * 95) \div 100]

\* update_pest_pressure
UpdatePestPressure(f, w) ==
    LET grown == f.pest_pressure + (f.pest_pressure * w.temperature) \div 5000
        humid == IF w.rainfall > 50 THEN (grown * 13) \div 10 ELSE grown
    IN  [f EXCEPT !.pest_pressure = (Min(FullGrowth, humid) * 95) \div 100]

\* crop water-use coefficient (x10) of decision_engine; etc is not used further
CropCoeff(f) == IF f.crop_growth_stage < 300000 THEN 3
                ELSE IF f.crop_growth_stage < 700000 THEN 12 ELSE 6

\* the moisture deficit seen by decision_engine
Deficit(sensor_data) == Max(0, 2500 - sensor_data.soil_moisture_avg)

\* the irrigation amount without the cap of 10
IrrigationAmountUncapped(deficit) == (deficit * 12) \div 10

\* the irrigation amount for a deficit: min(deficit * 1.2, 10)
IrrigationAmount(deficit) == Min((deficit * 12) \div 10, 1000)

\* the farm after decision_engine: the method assigns no attribute of self
DecisionEngineEffect(f, sensor_data, w) == f

\* decision_engine: the dictionary returned
DecisionEngine(f, sensor_data, w) ==
    LET deficit == Deficit(sensor_data)
        growth_stage == f.crop_growth_stage
        n_def == Max(0, ((4000 - sensor_data.soil_N) * (growth_stage \div 100)) \div 10000)
        fert == n_def > 500 /\ 200000 < growth_stage /\ growth_stage < 800000
    IN  [irrigate |-> deficit > 500,
         irrigation_amount |-> IF deficit > 500 THEN IrrigationAmount(deficit) ELSE 0,
         fertilize |-> fert,
         fertilizer_amount |-> IF fert THEN Min(n_def * 2, 2000) ELSE 0,
         apply_pesticide |-> sensor_data.pest_pressure > 4000]

\* execute_actions crediting the whole irrigation amount to the soil
ExecuteActionsNoLoss(f, decisions) ==
    LET f1 == IF decisions.irrigate
              THEN [f EXCEPT !.soil_moisture =
                                 [i \in 1..3 |-> f.soil_moisture[i] + decisions.irrigation_amount],
                             !.irrigation_applied = @ + decisions.irrigation_amount,
                             !.water_used = @ + decisions.irrigation_amount]
              ELSE f
        f2 == IF decisions.fertilize
              THEN [f1 EXCEPT !.soil_nutrients.N = @ + (decisions.fertilizer_amount * 7) \div 10,
                              !.fertilizer_applied = @ + decisions.fertilizer_amount]
              ELSE f1
    IN  IF decisions.apply_pesticide
        THEN [f2 EXCEPT !.pest_pressure = (@ * 3) \div 10]
        ELSE f2

\* execute_actions
ExecuteActions(f, decisions) ==
    LET f1 == IF decisions.irrigate
              THEN [f EXCEPT !.soil_moisture =
                                 [i \in 1..3 |-> f.soil_moisture[i]
                                                 + (decisions.irrigation_amount * 8) \div 10],
                             !.irrigation_applied = @ + decisions.irrigation_amount,
                             !.water_used = @ + decisions.irrigation_amount]
              ELSE f
        f2 == IF decisions.fertilize
              THEN [f1 EXCEPT !.soil_nutrients.N = @ + (decisions.fertilizer_amount * 7) \div 10,
                              !.fertilizer_applied = @ + decisions.fertilizer_amount]
              ELSE f1
    IN  IF decisions.apply_pesticide
        THEN [f2 EXCEPT !.pest_pressure = (@ * 3) \div 10]
        ELSE f2

\* 3500 / (365*5) in 1/10000
SystemCost == 19178

\* the final-tick test made after the increment of day_counter
FinalTickAfterIncrement(f) == f.day_counter + 1 = f.days - 1

\* the final-tick test of update_economics (day_counter not yet incremented)
FinalTick(f) == f.day_counter = f.days - 1

\* update_economics (called before day_counter is incremented)
UpdateEconomics(f) ==
    [f EXCEPT !.costs.water = @ + f.irrigation_applied * 5,
              !.costs.fertilizer = @ + f.fertilizer_applied * 120,
              !.costs.labor = @ + 200000 \div f.days,
              !.costs.system = SystemCost,
              !.revenue = IF FinalTick(f) THEN f.yield_kg * 3 ELSE @]

\* the guard written with > in place of >=
NoDayLeftOffByOne(f) == f.day_counter > f.days

\* the guard of advance_day: no day is left
NoDayLeft(f) == f.day_counter >= f.days

\* a tick returning whether a further day remains, as simulation.py does
TickReturnsMoreDays(f) == f.day_counter < f.days

\* the value advance_day returns after a tick (f: the farm after the tick)
TickReturns(f) == TRUE

\* the first half of a tick: the three physical updates and collect_data
Observe(f, w, noise, ds) ==
    LET f1 == UpdateSoilMoisture(f, w, noise)
        f2 == UpdateCropGrowth(f1, w)
        f3 == UpdatePestPressure(f2, w)
        c == CollectData(f3, ds)
    IN  [farm |-> [f3 EXCEPT !.nodes = c.nodes], values |-> c.values, data |-> c.data]

\* the body of advance_day after the guard, for today's weather row w
Tick(f, w, noise, ds) ==
    LET c == Observe(f, w, noise, ds)
        f4 == c.farm
        decisions == DecisionEngine(f4, c.data, w)
        f5 == ExecuteActions(DecisionEngineEffect(f4, c.data, w), decisions)
        f6 == UpdateEconomics(f5)
    IN  [farm |-> [f6 EXCEPT !.day_counter = @ + 1, !.current_date = @ + 1],
         values |-> c.values, sensor_data |-> c.data, decisions |-> decisions]

\* the entry run_simulation appends to daily_data after a tick
DailyEntry(f) ==
    [day |-> f.day_counter,
     soil_moisture |-> Mean(f.soil_moisture),
     soil_N |-> f.soil_nutrients.N,
     pest_pressure |-> f.pest_pressure,
     crop_growth |-> f.crop_growth_stage,
     water_used |-> f.water_used,
     irrigation |-> f.irrigation_applied,
     fertilizer |-> f.fertilizer_applied]

\* sum(self.costs.values()) * self.days, in 1/100
TotalCost(f) ==
    RoundDiv(f.costs.system + f.costs.water + f.costs.fertilizer + f.costs.labor, 100) * f.days

\* the guard written with >= in place of >
CostIsNonNegative(total_cost) == total_cost >= 0

\* the guard of calculate_roi
CostIsPositive(total_cost) == total_cost > 0

\* calculate_roi, in 1/10 percent
CalculateRoi(f) ==
    LET total_cost == TotalCost(f)
        net_benefit == f.revenue - total_cost
    IN  IF CostIsPositive(total_cost)
        THEN IF DivisorIsZero(total_cost) THEN Raises("ZeroDivisionError")
             ELSE Returns(RoundDiv(net_benefit * 1000, total_cost))
        ELSE Returns(0)

\* generate_report; percentages and rounded amounts in 1/10, money in 1/100.
\* The divisions by size * 600, size * 150, size * 4000 and by len(nodes)
\* raise ZeroDivisionError on a zero divisor.
GenerateReport(f) ==
    IF \/ DivisorIsZero(f.size)
       \/ CalculateRoi(f).raised # None
       \/ CalculateUptime(f).raised # None
    THEN Raises("ZeroDivisionError")
    ELSE Returns(
         [water_used_m3 |-> RoundDiv(f.water_used * f.size, 10),
          water_savings |-> 1000 - RoundDiv(f.water_used, f.size * 6),
          fertilizer_used_kg |-> RoundDiv(f.fertilizer_applied, 10),
          fertilizer_savings |-> 1000 - RoundDiv(f.fertilizer_applied * 10, f.size * 15),
          yield_kg |-> f.yield_kg,
          yield_increase |-> RoundDiv(f.yield_kg, f.size * 4) - 1000,
          total_cost |-> TotalCost(f),
          revenue |-> f.revenue,
          roi |-> CalculateRoi(f).value,
          sensor_uptime |-> CalculateUptime(f).value])

(***************************************************************************)
(* simulation.py : VirtualFarm.  Units: soil moisture, pest pressure,      *)
(* water and irrigation 1/1000; nitrogen and growth stage 1/1000000;       *)
(* fertilizer in whole units; size in 1/10 ha as in app.py.                *)
(***************************************************************************)
\* the draws of one simulate_day:
\*   et   = np.random.uniform(0.01, 0.03)
\*   rain = np.random.choice([0, 0.01, 0.05, 0.1])
\*   pest = np.random.uniform(-0.01, 0.02)
SimDraws(s) ==
    IF s = "monsoon" THEN {[et |-> 10, rain |-> 100, pest |-> -10]}
    ELSE {[et |-> 30, rain |-> 0, pest |-> -10],
          [et |-> 30, rain |-> 0, pest |-> 20],
          [et |-> 10, rain |-> 10, pest |-> 20],
          [et |-> 10, rain |-> 50, pest |-> -10],
          [et |-> 30, rain |-> 100, pest |-> 20]}

\* np.random.uniform(0.2, 0.5, size=(n,))
SimUniformVectors(n, s) ==
    IF s = "monsoon" THEN {[i \in 1..n |-> 350]}
    ELSE {[i \in 1..n |-> 200], [i \in 1..n |-> IF i % 2 = 1 THEN 500 ELSE 200]}

\* np.clip(x, 0, 1) for a quantity in 1/1000
Clip01(x) == Max(0, Min(1000, x))

\* VirtualFarm.__init__ (size_ha a non-negative whole number of hectares)
NewSimFarm(cfg, moisture) ==
    [size |-> cfg.size_ha, crop_type |-> cfg.crop_type,
     simulation_days |-> cfg.simulation_days,
     day_counter |-> 0,
     soil_moisture |-> moisture,
     soil_nutrients |-> [N |-> 50000000, P |-> 30000000, K |-> 40000000],
     pest_pressure |-> 100,
     crop_growth_stage |-> 0,
     water_used |-> 0,
     fertilizer_applied |-> 0,
     irrigation_applied |-> 0,
     daily_logs |-> <<>>]

\* a return value that ignores the horizon
SimMoreDaysUntilMature(f) == f.crop_growth_stage < FullGrowth

\* the value returned by simulate_day
SimMoreDays(f) == f.crop_growth_stage < FullGrowth /\ f.day_counter < f.simulation_days

\* simulate_day
SimulateDay(f, d) ==
    LET n == Len(f.soil_moisture)
        ha == f.size \div 10
        avg_moisture == Mean(f.soil_moisture)
        irrigate == avg_moisture < 250
        irrigation == IF irrigate THEN 50 ELSE 0
        moisture == [i \in 1..n |->
                        Clip01(f.soil_moisture[i] + irrigation + d.rain - d.et)]
        uptake == (3 * f.crop_growth_stage) \div 10
        n1 == Max(0, f.soil_nutrients.N - uptake)
        fertilize == n1 < 20000000
        n2 == IF fertilize THEN n1 + 10000000 ELSE n1
        fertilizer == IF fertilize THEN f.fertilizer_applied + 10 ELSE f.fertilizer_applied
        pest == Clip01(f.pest_pressure + d.pest)
        growth_rate == avg_moisture * 400 + (n2 * 3) \div 1000 + (1000 - pest) * 300
        stage == Min(FullGrowth, f.crop_growth_stage + growth_rate \div 100)
        water == f.water_used + irrigation * ha
    IN  [f EXCEPT !.soil_moisture = moisture,
                  !.irrigation_applied = @ + irrigation * ha,
                  !.water_used = water,
                  !.soil_nutrients.N = n2,
                  !.fertilizer_applied = fertilizer,
                  !.pest_pressure = pest,
                  !.crop_growth_stage = stage,
                  !.day_counter = @ + 1,
                  !.daily_logs = Append(@, [day |-> f.day_counter + 1,
                                            soil_moisture |-> avg_moisture,
                                            soil_N |-> n2,
                                            pest_pressure |-> pest,
                                            crop_growth |-> stage,
                                            water_used |-> water,
                                            irrigation |-> irrigation * ha,
                                            fertilizer |-> fertilizer])]

(***************************************************************************)
(* Configurations the caller passes to the constructors.                   *)
(***************************************************************************)
CropTypes == {"wheat", "corn", "soy", "tomato"}

Config(v, s, size, crop, soil, days) ==
    [variant |-> v, seed |-> s, size_ha |-> size, crop_type |-> crop,
     soil_type |-> soil, simulation_days |-> days]

Configs ==
    \* app.py, free draws: 1 ha (one node), 2 ha (three nodes), 0.5 ha (no node)
    {Config("app", "any", 10, "tomato", "sandy", d) : d \in 0..MaxDays}
    \cup {Config("app", "any", 20, "wheat", "loam", 1),
          Config("app", "any", 5, "corn", "clay", 1),
          \* invalid configurations
          Config("app", "any", 0, "banana", "loam", 1),
          Config("app", "any", 10, "wheat", "loam", -1)}
    \* app.py, a full default season under the fixed stream
    \cup {Config("app", "monsoon", 20, "wheat", "loam", SeasonDays)}
    \* app.py, 5 ha (seven nodes: soil-moisture nodes at all three depths)
    \cup {Config("app", "monsoon", 50, "soy", "loam", MaxDays)}
    \* app.py, a one-year run under the fixed stream
    \cup {Config("app", "monsoon", 20, "corn", "loam", YearDays)}
    \* simulation.py, free draws
    \cup {Config("simulation", "any", 20, "wheat", "n/a", d) : d \in 0..MaxDays}
    \cup {Config("simulation", "any", 10, "banana", "n/a", 1),
          Config("simulation", "any", 5, "wheat", "n/a", 1),
          Config("simulation", "any", -10, "wheat", "n/a", 1)}
    \* simulation.py, the longest dashboard season under the fixed stream
    \cup {Config("simulation", "monsoon", 10, "wheat", "n/a", LongSeasonDays)}

\* what section 7 of the design calls a valid configuration
ValidConfig(size, crop, days) == size > 0 /\ crop \in CropTypes /\ days > 0

\* the record of a call: operation, return value, exception, and for
\* advance_day of app.py the locals of the tick
Call(op, ret, raised) ==
    [op |-> op, ret |-> ret, raised |-> raised,
     values |-> <<>>, sensor_data |-> None, decisions |-> None]

\* app.py: np.random.weibull(0.8, days) raises ValueError for days < 0
InitApp(cfg) ==
    /\ sim = NoFarm
    /\ IF cfg.simulation_days < 0
       THEN /\ farm = NoFarm
            /\ last = Call("__init__", None, "ValueError")
       ELSE /\ \E moisture \in InitializeSoilMoisture(cfg.soil_type, cfg.seed),
                  weather \in WeatherProfiles(cfg.crop_type, cfg.simulation_days, cfg.seed),
                  depths \in DepthDraws(Max(0, NodeCount(cfg.size_ha)), cfg.seed) :
                 farm = NewFarm(cfg, moisture, weather, depths)
            /\ last = Call("__init__", None, None)

\* simulation.py: np.random.uniform(0.2, 0.5, size=(size,)) raises TypeError
\* for a fractional size and ValueError for a negative one
InitSim(cfg) ==
    /\ farm = NoFarm
    /\ IF cfg.size_ha % 10 # 0
       THEN /\ sim = NoFarm
            /\ last = Call("__init__", None, "TypeError")
       ELSE IF cfg.size_ha < 0
       THEN /\ sim = NoFarm
            /\ last = Call("__init__", None, "ValueError")
       ELSE /\ \E moisture \in SimUniformVectors(cfg.size_ha \div 10, cfg.seed) :
                 sim = NewSimFarm(cfg, moisture)
            /\ last = Call("__init__", None, None)

Init ==
    \E cfg \in Configs :
        /\ variant = cfg.variant
        /\ seed = cfg.seed
        /\ IF cfg.variant = "app" THEN InitApp(cfg) ELSE InitSim(cfg)
        /\ daily_data = <<>>

(***************************************************************************)
(* Operations                                                              *)
(***************************************************************************)
\* app.py VirtualFarm.advance_day
AdvanceDay ==
    /\ variant = "app" /\ farm # NoFarm
    /\ IF NoDayLeft(farm)
       THEN /\ farm' = farm
            /\ last' = Call("advance_day", FALSE, None)
            /\ daily_data' = daily_data
       ELSE IF farm.day_counter >= Len(farm.weather)
       THEN \* self.weather.iloc[self.day_counter] is out of bounds
            /\ farm' = farm
            /\ last' = Call("advance_day", None, "IndexError")
            /\ daily_data' = daily_data
       ELSE \E noise \in DepletionNoise(seed),
               ds \in [1..Len(farm.nodes) -> NodeDraws(seed)] :
               LET t == Tick(farm, farm.weather[farm.day_counter + 1], noise, ds)
               IN  /\ farm' = t.farm
                   /\ last' = [op |-> "advance_day", ret |-> TickReturns(t.farm),
                               raised |-> None,
                               values |-> t.values, sensor_data |-> t.sensor_data,
                               decisions |-> t.decisions]
                   \* the body of the while loop of run_simulation
                   /\ daily_data' = IF TickReturns(t.farm)
                                    THEN Append(daily_data, DailyEntry(t.farm))
                                    ELSE daily_data
    /\ UNCHANGED <<variant, seed, sim>>

\* app.py VirtualFarm.generate_report
Report ==
    /\ variant = "app" /\ farm # NoFarm
    /\ LET r == GenerateReport(farm)
       IN  last' = Call("generate_report", r.value, r.raised)
    /\ UNCHANGED <<variant, seed, farm, sim, daily_data>>

\* app.py VirtualFarm.calculate_roi
Roi ==
    /\ variant = "app" /\ farm # NoFarm
    /\ LET r == CalculateRoi(farm)
       IN  last' = Call("calculate_roi", r.value, r.raised)
    /\ UNCHANGED <<variant, seed, farm, sim, daily_data>>

\* simulation.py VirtualFarm.advance_day; calls beyond the horizon are
\* explored up to MaxOverrun
SimAdvanceDay ==
    /\ variant = "simulation" /\ sim # NoFarm
    /\ sim.day_counter < Max(0, sim.simulation_days) + MaxOverrun
    /\ \E d \in SimDraws(seed) :
          LET f == SimulateDay(sim, d)
          IN  /\ sim' = f
              /\ last' = Call("advance_day", SimMoreDays(f), None)
    /\ UNCHANGED <<variant, seed, farm, daily_data>>

Next == AdvanceDay \/ Report \/ Roi \/ SimAdvanceDay

Spec == Init /\ [][Next]_vars

(***************************************************************************)
(* Properties                                                              *)
(***************************************************************************)
AppFarm == variant = "app" /\ farm # NoFarm
SimFarm == variant = "simulation" /\ sim # NoFarm

\* the step is a call of app.py's advance_day that executed a tick
AppTickStep == AppFarm /\ farm'.day_counter = farm.day_counter + 1

\* C1: once day_counter == simulation days, every further advance_day call
\* returns False and leaves every FarmState field and every sensor node
\* (battery, operational) unchanged.
C1_TerminalCallsChangeNothing ==
    [][(AppFarm /\ farm.day_counter = farm.days)
        => /\ farm' = farm
           /\ last'.op = "advance_day" => (last'.raised = None /\ last'.ret = FALSE)]_vars

C1_Witness ==
    /\ AppFarm /\ farm.days >= 1 /\ farm.day_counter = farm.days
    /\ last.op = "advance_day" /\ last.raised = None /\ last.ret = FALSE

\* C2 as stated: advance_day returns True if and only if, after the call,
\* day_counter < simulation days.
C2_Original ==
    (AppFarm /\ farm.size > 0 /\ farm.crop \in CropTypes /\ farm.days >= 1
     /\ last.op = "advance_day" /\ last.raised = None)
        => (last.ret = TRUE <=> farm.day_counter < farm.days)

\* C2 amended: advance_day returns True if and only if the call executed a
\* tick, that is if and only if day_counter < simulation days before the call.
C2_ReturnsWhetherATickRan ==
    [][(AppFarm /\ last'.op = "advance_day")
        => /\ last'.raised = None
           /\ last'.ret = TRUE <=> farm.day_counter < farm.days
           /\ last'.ret = TRUE <=> farm'.day_counter = farm.day_counter + 1]_vars

C2_Witness ==
    /\ AppFarm /\ farm.days >= 1 /\ farm.day_counter = farm.days
    /\ last.op = "advance_day" /\ last.raised = None /\ last.ret = TRUE

\* C3: in both engines pest_pressure and crop_growth_stage stay within [0,1].
C3_PestAndGrowthInUnitInterval ==
    /\ AppFarm => /\ 0 <= farm.pest_pressure /\ farm.pest_pressure <= 1000000
                  /\ 0 <= farm.crop_growth_stage /\ farm.crop_growth_stage <= FullGrowth
    /\ SimFarm => /\ 0 <= sim.pest_pressure /\ sim.pest_pressure <= 1000
                  /\ 0 <= sim.crop_growth_stage /\ sim.crop_growth_stage <= FullGrowth

\* the clamp of the growth stage is active
C3_Witness ==
    AppFarm /\ farm.day_counter > 0 /\ farm.crop_growth_stage = FullGrowth

\* C4 as stated: water_used, irrigation_applied and fertilizer_applied never
\* decrease from one tick to the next.
C4_CountersNeverDecrease ==
    [][AppFarm => /\ farm'.water_used >= farm.water_used
                  /\ farm'.irrigation_applied >= farm.irrigation_applied
                  /\ farm'.fertilizer_applied >= farm.fertilizer_applied]_vars

\* C5 as stated: day_counter <= simulation days in every reachable state of
\* either engine (here for the farms of a positive size, a known crop and a
\* positive number of simulation days).
C5_DayCounterWithinHorizon ==
    /\ (AppFarm /\ farm.size > 0 /\ farm.crop \in CropTypes /\ farm.days >= 1)
          => farm.day_counter <= farm.days
    /\ (SimFarm /\ sim.size > 0 /\ sim.crop_type \in CropTypes /\ sim.simulation_days >= 1)
          => sim.day_counter <= sim.simulation_days

\* C6 as stated: an invalid configuration is rejected at creation, so no
\* farm object exists for it and no tick is ever run on it.
C6_InvalidConfigRejected ==
    /\ (AppFarm /\ farm.day_counter > 0) => ValidConfig(farm.size, farm.crop, farm.days)
    /\ (SimFarm /\ sim.day_counter > 0)
          => ValidConfig(sim.size, sim.crop_type, sim.simulation_days)

\* C7 as stated: for any positive farm size generate_report returns a report,
\* with sensor_uptime in [0,100], and never fails on a division by zero.
C7_ReportNeverFails ==
    (AppFarm /\ farm.size > 0 /\ last.op = "generate_report")
        => /\ last.raised = None
           /\ 0 <= last.ret.sensor_uptime /\ last.ret.sensor_uptime <= 1000

\* C8: calculate_roi never divides by zero and returns exactly 0 whenever
\* the total cost is 0.
C8_RoiGuarded ==
    (AppFarm /\ last.op = "calculate_roi")
        => /\ last.raised = None
           /\ TotalCost(farm) = 0 => last.ret = 0

C8_Witness ==
    /\ AppFarm /\ last.op = "calculate_roi" /\ last.raised = None
    /\ TotalCost(farm) = 0 /\ farm.day_counter = 0 /\ last.ret = 0

\* no node of the type returned a reading in the last collect_data pass
NoReadingOf(type, nodes, values) ==
    \A i \in 1..Len(nodes) : nodes[i].sensor_type = type => values[i].is_none

ZeroRecord ==
    [soil_moisture_avg |-> 0, soil_moisture_var |-> 0, soil_N |-> 0, pest_pressure |-> 0]

\* C9: collect_data never raises; the aggregate of a sensor type without a
\* reading is 0; with every node non-operational at the start of the call
\* the record is all zeros.
C9_MissingReadingsDefaultToZero ==
    [][AppTickStep
        => /\ last'.raised = None
           /\ NoReadingOf("soil_moisture", farm.nodes, last'.values)
                => (last'.sensor_data.soil_moisture_avg = 0
                    /\ last'.sensor_data.soil_moisture_var = 0)
           /\ NoReadingOf("nutrient", farm.nodes, last'.values)
                => last'.sensor_data.soil_N = 0
           /\ NoReadingOf("pest", farm.nodes, last'.values)
                => last'.sensor_data.pest_pressure = 0
           /\ (\A i \in 1..Len(farm.nodes) : ~farm.nodes[i].operational)
                => last'.sensor_data = ZeroRecord]_vars

\* a pass over a network none of whose nodes was operational at the start
\* of the call returned the all-zero record
C9_Witness ==
    /\ AppFarm /\ farm.day_counter >= 1 /\ last.op = "advance_day" /\ last.raised = None
    /\ Len(farm.nodes) >= 1 /\ Len(last.values) = Len(farm.nodes)
    /\ \A i \in 1..Len(farm.nodes) : last.values[i] = NotOperational
    /\ last.sensor_data = ZeroRecord

\* C10 as stated: once crop_growth_stage >= 0.95 has set yield_kg, no later
\* tick changes it.
C10_YieldSetOnce ==
    [][(AppFarm /\ farm.crop_growth_stage >= Maturity)
        => farm'.yield_kg = farm.yield_kg]_vars

\* C11: revenue is 0 in every state with day_counter < simulation days; once
\* day_counter == simulation days it equals 0.3 * yield_kg of that state, and
\* no later call modifies it.
C11_RevenueSetAtFinalTick ==
    /\ [](AppFarm => /\ farm.day_counter < farm.days => farm.revenue = 0
                     /\ farm.day_counter = farm.days => farm.revenue = farm.yield_kg * 3)
    /\ [][(AppFarm /\ farm.day_counter = farm.days) => farm'.revenue = farm.revenue]_vars

\* the season is over with a positive revenue and a further call was made
C11_Witness ==
    /\ AppFarm /\ farm.day_counter = farm.days /\ farm.revenue > 0
    /\ farm.revenue = farm.yield_kg * 3
    /\ last.op = "advance_day" /\ last.raised = None /\ last.ret = FALSE

\* C12: the sensor network of a farm of size farmSize has exactly
\* round(farmSize * 1.5) nodes, and node i (0-based) has the sensor type at
\* position i mod 3 of (soil_moisture, nutrient, pest).
C12_NodeCountAndTypes ==
    (AppFarm /\ farm.size > 0)
        => /\ Len(farm.nodes) = PyRound(farm.size * 15, 100)
           /\ \A i \in 1..Len(farm.nodes) :
                  /\ farm.nodes[i].node_id = i - 1
                  /\ farm.nodes[i].sensor_type = SensorTypes[((i - 1) % 3) + 1]

\* the day fields of a log are 1, 2, ..., n in order
DaysInOrder(log, n) == Len(log) = n /\ \A i \in 1..n : log[i].day = i

\* C13: run_simulation with duration N >= 1 ends with day_counter == N and a
\* log of exactly N entries whose day fields are 1, 2, ..., N in order.  The
\* loop of run_simulation ends with the first advance_day that returns False:
\* in app.py that call changes nothing, so every state after a False return
\* is the final one; in simulation.py it is the step from a state in which
\* no call has returned False yet.
C13_RunEndsAtDuration ==
    /\ []((AppFarm /\ farm.days >= 1
           /\ last.op = "advance_day" /\ last.raised = None /\ last.ret = FALSE)
              => (farm.day_counter = farm.days /\ DaysInOrder(daily_data, farm.days)))
    /\ [][(SimFarm /\ sim.simulation_days >= 1
           /\ (last.op = "advance_day" => last.ret = TRUE)
           /\ last'.op = "advance_day" /\ last'.ret = FALSE)
              => (sim'.day_counter = sim.simulation_days
                  /\ DaysInOrder(sim'.daily_logs, sim.simulation_days))]_vars

\* C14: every sensor node's battery is within [0, 100] after any number of
\* ticks, and it never increases except by a maintenance event, which resets
\* it to 100 and sets operational to true.
C14_BatteryInRange ==
    /\ [](AppFarm => \A i \in 1..Len(farm.nodes) :
                        farm.nodes[i].battery >= 0 /\ farm.nodes[i].battery <= FullBattery)
    /\ [][AppFarm => \A i \in 1..Len(farm.nodes) :
                        farm'.nodes[i].battery > farm.nodes[i].battery
                            => (farm'.nodes[i].battery = FullBattery
                                /\ farm'.nodes[i].operational)]_vars

\* the soil_moisture vector the sensors measured in the last tick: the
\* present one without the irrigation executed after the measurement
MeasuredMoisture ==
    [c \in 1..3 |-> farm.soil_moisture[c] - (last.decisions.irrigation_amount * 8) \div 10]

\* the reading v is a noisy reading of component c of the measured vector
ReadsComponent(v, c) ==
    \E d \in NodeDraws(seed) :
        v = ClampReading("soil_moisture", MeasuredMoisture[c] + d.noise * Sigma("soil_moisture"))

\* C15: an operational soil-moisture node reads the soil_moisture component
\* of its own depth band: after a tick, the readings of two soil-moisture
\* nodes at different depths are readings of two different components.
C15_DepthBandsReadDifferentComponents ==
    (AppFarm /\ last.op = "advance_day" /\ Len(last.values) = Len(farm.nodes))
        => \A i, j \in 1..Len(farm.nodes) :
              (/\ farm.nodes[i].sensor_type = "soil_moisture"
               /\ farm.nodes[j].sensor_type = "soil_moisture"
               /\ farm.nodes[i].depth # farm.nodes[j].depth
               /\ ~last.values[i].is_none /\ ~last.values[j].is_none)
                  => \E ci, cj \in 1..3 :
                        /\ ci # cj
                        /\ ReadsComponent(last.values[i].v, ci)
                        /\ ReadsComponent(last.values[j].v, cj)

\* the last call was an advance_day of app.py that executed a tick
AppTickDone == AppFarm /\ last.op = "advance_day" /\ last.raised = None /\ last.ret = TRUE

\* C16: decision_engine sets irrigate iff (25 - observed soil_moisture_avg) > 5;
\* then irrigation_amount == min(deficit * 1.2, 10), which lies in (6, 10];
\* otherwise irrigation_amount == 0; and the call modifies no field of the
\* farm: the farm after the tick is the observed farm changed by
\* execute_actions and update_economics alone.
C16_IrrigationRule ==
    /\ [](AppTickDone =>
            LET avg == last.sensor_data.soil_moisture_avg
                dec == last.decisions
            IN  /\ dec.irrigate <=> (2500 - avg) > 500
                /\ dec.irrigate => /\ dec.irrigation_amount = Min(((2500 - avg) * 12) \div 10, 1000)
                                   /\ dec.irrigation_amount > 600
                                   /\ dec.irrigation_amount <= 1000
                /\ ~dec.irrigate => dec.irrigation_amount = 0)
    /\ [][AppTickStep =>
            \E noise \in DepletionNoise(seed), ds \in [1..Len(farm.nodes) -> NodeDraws(seed)] :
                LET c == Observe(farm, farm.weather[farm.day_counter + 1], noise, ds)
                    f == UpdateEconomics(ExecuteActions(c.farm, last'.decisions))
                IN  /\ last'.values = c.values
                    /\ farm' = [f EXCEPT !.day_counter = @ + 1, !.current_date = @ + 1]]_vars

\* a tick irrigated with an amount below the cap
C16_Witness ==
    /\ AppTickDone /\ last.decisions.irrigate
    /\ last.decisions.irrigation_amount > 600 /\ last.decisions.irrigation_amount < 1000

\* C17: after every tick the accumulated water cost is 0.05 times the
\* irrigation applied so far and the accumulated fertilizer cost 1.2 times
\* the fertilizer applied so far.
C17_CostsProportionalToInputs ==
    (AppFarm /\ farm.day_counter > 0)
        => /\ farm.costs.water = 5 * farm.irrigation_applied
           /\ farm.costs.fertilizer = 120 * farm.fertilizer_applied

\* C18: pest_pressure of app.py equals 0 in every reachable state, whatever
\* the ticks and the weather.
C18_PestPressureAlwaysZero == AppFarm => farm.pest_pressure = 0

\* a tick on a warm day with more than 5 mm of rain has been executed
C18_Witness ==
    /\ AppTickDone /\ farm.pest_pressure = 0
    /\ farm.weather[farm.day_counter].rainfall > 50
    /\ farm.weather[farm.day_counter].temperature > 0

\* the step is a tick of app.py in which no soil-moisture node returned a reading
BlindTickStep == AppTickStep /\ NoReadingOf("soil_moisture", farm.nodes, last'.values)

\* C19 as stated: in a tick without a soil-moisture reading the engine
\* irrigates with the maximum amount 10, and over that tick soil_moisture
\* rises by 8 and irrigation_applied and water_used rise by 10.
C19_Original ==
    [][BlindTickStep
        => /\ last'.decisions.irrigate /\ last'.decisions.irrigation_amount = 1000
           /\ \A i \in 1..3 : farm'.soil_moisture[i] = farm.soil_moisture[i] + 800
           /\ farm'.irrigation_applied = farm.irrigation_applied + 1000
           /\ farm'.water_used = farm.water_used + 1000]_vars

\* C19 amended: in a tick without a soil-moisture reading the engine
\* irrigates with the maximum amount 10; irrigation_applied rises by 10 over
\* the tick, and soil_moisture ends 8 above, water_used 10 above, the values
\* the tick's own soil-moisture update (depletion and rain) produced.
C19_BlindTickIrrigatesMaximum ==
    [][BlindTickStep
        => \E noise \in DepletionNoise(seed) :
              LET p == UpdateSoilMoisture(farm, farm.weather[farm.day_counter + 1], noise)
              IN  /\ last'.decisions.irrigate /\ last'.decisions.irrigation_amount = 1000
                  /\ \A i \in 1..3 : farm'.soil_moisture[i] = p.soil_moisture[i] + 800
                  /\ farm'.irrigation_applied = farm.irrigation_applied + 1000
                  /\ farm'.water_used = p.water_used + 1000]_vars

\* a tick whose soil-moisture node gave no reading irrigated the maximum
\* although the component the node reads was already above the target 25
C19_Witness ==
    /\ AppTickDone /\ Len(last.values) = Len(farm.nodes)
    /\ \E i \in 1..Len(farm.nodes) : farm.nodes[i].sensor_type = "soil_moisture"
    /\ NoReadingOf("soil_moisture", farm.nodes, last.values)
    /\ last.decisions.irrigation_amount = 1000
    /\ farm.soil_moisture[3] - 800 > 2500

\* C20: the loop `while farm.advance_day()` terminates.  Every call that
\* returns True increments day_counter, so day_counter counts them.  In
\* app.py a call returns True exactly while day_counter < simulation days
\* (True simulation-days times, then False); in simulation.py every call
\* increments day_counter, the call number max(1, simulation_days) or later
\* returns False, and an earlier call returns False only with
\* crop_growth_stage at 1.0.
C20_RunLoopTerminates ==
    [][/\ (AppFarm /\ last'.op = "advance_day")
            => /\ last'.raised = None
               /\ last'.ret = TRUE <=> farm.day_counter < farm.days
               /\ last'.ret = TRUE => farm'.day_counter = farm.day_counter + 1
               /\ farm'.day_counter <= Max(0, farm.days)
       /\ (SimFarm /\ last'.op = "advance_day")
            => /\ last'.raised = None
               /\ sim'.day_counter = sim.day_counter + 1
               /\ sim'.day_counter >= Max(1, sim.simulation_days) => last'.ret = FALSE
               /\ (last'.ret = FALSE /\ sim'.day_counter < Max(1, sim.simulation_days))
                     => sim'.crop_growth_stage >= FullGrowth]_vars

\* simulation.py's loop ended before the horizon with a fully grown crop
C20_Witness ==
    /\ SimFarm /\ last.op = "advance_day" /\ last.raised = None /\ last.ret = FALSE
    /\ sim.day_counter < sim.simulation_days
    /\ sim.crop_growth_stage = FullGrowth

====
